---- MODULE Spec2Model ----
(***************************************************************************)
(* Model of youtube_downloader.py: the FFmpeg resolution routine           *)
(* (check_ffmpeg / install_ffmpeg and the per-platform installers) and the *)
(* main program that calls it through download_video.                      *)
(*                                                                         *)
(* Paths are sequences of components relative to get_base_path(); the      *)
(* filesystem is the set of files and the set of directories that exist.   *)
(* One run of the program is one process; the filesystem persists from a   *)
(* run to the next while the process environment (PATH) does not.          *)
(***************************************************************************)
EXTENDS Integers, Sequences, FiniteSets, TLC

VARIABLES
    system,       \* platform.system()
    onPath,       \* an ffmpeg is installed on the system search path
    files,        \* files that exist below the base path
    dirs,         \* directories that exist below the base path
    zipContent,   \* the archive last written to <base>/ffmpeg.zip
    envPATH,      \* os.environ["PATH"], a sequence of directories
    pc,           \* position of the running program
    run,          \* number of the current run of the program
    cached,       \* check_ffmpeg found the expected binary at line 41
    probeOutcome, \* outcome of the line-48 probe on this call
    log,          \* external steps check_ffmpeg has taken on this call
    ret,          \* what check_ffmpeg returned or raised on this call
    files0,       \* files at the start of this check_ffmpeg call
    dirs0,        \* dirs at the start of this check_ffmpeg call
    path0,        \* envPATH at the start of this check_ffmpeg call
    ydl,          \* outcome of YoutubeDL.download on this run
    out,          \* messages printed on this run
    calls         \* the check_ffmpeg calls that have ended, oldest first

vars == <<system, onPath, files, dirs, zipContent, envPATH, pc, run, cached,
          probeOutcome, log, ret, files0, dirs0, path0, ydl, out, calls>>

\* How many times the program is run, one run after the other.
MaxRuns == 2

Systems == {"Windows", "Darwin", "Linux"}

\* ---------------------------------------------------------------- paths

\* get_ffmpeg_paths()[1]: the directory expected to hold the binary.
ffmpeg_dir_of(sys) ==
    IF sys = "Windows"
    THEN <<"ffmpeg", "ffmpeg-7.1-essentials_build", "bin">>
    ELSE <<"ffmpeg", "bin">>

\* get_ffmpeg_paths()[0]: the expected binary path.
ffmpeg_exe_of(sys) ==
    IF sys = "Windows"
    THEN ffmpeg_dir_of(sys) \o <<"ffmpeg.exe">>
    ELSE ffmpeg_dir_of(sys) \o <<"ffmpeg">>

\* The name of the binary inside a distribution archive.
BinaryName(sys) == IF sys = "Windows" THEN "ffmpeg.exe" ELSE "ffmpeg"

ZipPath_InInstallDir == <<"ffmpeg", "bin", "ffmpeg.zip">>

\* ffmpeg_zip = os.path.join(base_path, "ffmpeg.zip")
ZipPath == <<"ffmpeg.zip">>

\* The initial value of os.environ["PATH"] in a fresh process.
InitialPATH == << <<"usr", "bin">> >>

Ancestors(p) == {SubSeq(p, 1, k) : k \in 1..(Len(p) - 1)}

IsPrefix(d, p) == Len(d) <= Len(p) /\ SubSeq(p, 1, Len(d)) = d

\* os.path.exists(p)
exists(p) == p \in files \/ p \in dirs

\* os.makedirs(d, exist_ok=True): the directories that exist afterwards.
makedirs(d) == dirs \cup Ancestors(d) \cup {d}

PrependPath_Append(d, p) == p \o <<d>>

\* ffmpeg_dir + os.pathsep + os.environ["PATH"]
PrependPath(d, p) == <<d>> \o p

\* ---------------------------------------------------------------- archives

\* A file that zipfile.ZipFile cannot open (truncated, or not a zip at all).
Corrupt == [valid |-> FALSE, entries |-> {}]

\* The archives a download may deliver: a truncated or corrupt file, the
\* binary at the archive root, the binary below one or three directories,
\* the Windows build under the directory name the code expects and under
\* the name of another release, and an archive without the binary.
Archives ==
    { Corrupt,
      [valid |-> TRUE, entries |-> {<<"ffmpeg">>}],
      [valid |-> TRUE, entries |-> {<<"ffmpeg-6.1", "ffmpeg">>}],
      [valid |-> TRUE, entries |-> {<<"a", "b", "c", "ffmpeg">>}],
      [valid |-> TRUE, entries |-> {<<"ffmpeg.exe">>}],
      [valid |-> TRUE,
       entries |-> {<<"ffmpeg-7.1-essentials_build", "bin", "ffmpeg.exe">>,
                    <<"ffmpeg-7.1-essentials_build", "README.txt">>}],
      [valid |-> TRUE,
       entries |-> {<<"ffmpeg-7.1.1-essentials_build", "bin", "ffmpeg.exe">>}],
      [valid |-> TRUE, entries |-> {<<"README.txt">>}] }

\* zip_ref.extractall(dest): the files and directories that exist afterwards.
extractall_files(a, dest) == files \cup {dest \o e : e \in a.entries}

extractall_dirs(a, dest) ==
    dirs \cup {dest} \cup Ancestors(dest)
         \cup UNION {Ancestors(dest \o e) : e \in a.entries}

\* The archive lists an entry whose file name is the binary's name.
ContainsBinary(a, sys) ==
    \E e \in a.entries : e[Len(e)] = BinaryName(sys)

\* ---------------------------------------------------------------- results

NoResult == [kind |-> "none", path |-> <<>>]
Raised == [kind |-> "raised", path |-> <<>>]
Sentinel == [kind |-> "name", path |-> <<"ffmpeg">>]
PathResult(p) == [kind |-> "path", path |-> p]

\* The installer commands and downloads that do install or network work.
InstallerEvents ==
    {"apt_ok", "apt_fail", "yum_ok", "yum_fail", "brew_ok", "brew_fail",
     "powershell_ok", "powershell_fail", "urlretrieve_ok", "urlretrieve_fail"}

InstallerSuccess == {"apt_ok", "yum_ok", "brew_ok", "extract_ok"}

FetchFailures == {"powershell_fail", "urlretrieve_fail"}

Events(l) == {l[i] : i \in 1..Len(l)}

Count(l, e) == Cardinality({i \in 1..Len(l) : l[i] = e})

\* ---------------------------------------------------------------- state

Init ==
    /\ system \in Systems
    /\ onPath \in BOOLEAN
    /\ \E bundled \in BOOLEAN :
          IF bundled
          THEN /\ files = {ffmpeg_exe_of(system)}
               /\ dirs = Ancestors(ffmpeg_exe_of(system))
          ELSE /\ files = {}
               /\ dirs = {}
    /\ zipContent = Corrupt
    /\ envPATH = InitialPATH
    /\ pc = "start"
    /\ run = 1
    /\ cached = FALSE
    /\ probeOutcome = "none"
    /\ log = <<>>
    /\ ret = NoResult
    /\ files0 = files
    /\ dirs0 = dirs
    /\ path0 = envPATH
    /\ ydl = "none"
    /\ out = {}
    /\ calls = <<>>

\* check_ffmpeg returns r to download_video, having taken the steps l.
Return(r, l) ==
    /\ pc' = "returned"
    /\ ret' = r
    /\ log' = l
    /\ calls' = Append(calls, [ret |-> r, log |-> l])

\* An exception leaves check_ffmpeg, which has taken the steps l.
Raise(l) ==
    /\ pc' = "raised"
    /\ ret' = Raised
    /\ log' = l
    /\ calls' = Append(calls, [ret |-> Raised, log |-> l])

\* install_ffmpeg's handler: print the advice and re-raise; check_ffmpeg
\* has no handler, so the exception leaves it too.
InstallFailed(l) == Raise(l)

\* install_ffmpeg returns normally and check_ffmpeg goes on at line 61.
InstallReturned(l) ==
    /\ pc' = "recheck"
    /\ log' = l
    /\ UNCHANGED <<ret, calls>>

\* ---------------------------------------------------------------- main

\* __main__ up to the call of download_video, and download_video up to the
\* call of check_ffmpeg. input() may raise (EOFError), which __main__ catches.
Main ==
    /\ pc = "start"
    /\ \E eof \in BOOLEAN :
          IF eof
          THEN /\ pc' = "exit"
               /\ out' = out \cup {"An error occurred"}
          ELSE /\ pc' = "check"
               /\ out' = out
    /\ files0' = files
    /\ dirs0' = dirs
    /\ path0' = envPATH
    /\ UNCHANGED <<system, onPath, files, dirs, zipContent, envPATH, run,
                   cached, probeOutcome, log, ret, ydl, calls>>

CheckCached_NoShortCircuit ==
    /\ pc = "check"
    /\ cached' = exists(ffmpeg_exe_of(system))
    /\ pc' = "probe"
    /\ UNCHANGED <<system, onPath, files, dirs, zipContent, envPATH, run,
                   probeOutcome, log, ret, files0, dirs0, path0, ydl, out,
                   calls>>

\* check_ffmpeg, lines 39-45: the cache check.
CheckCached ==
    /\ pc = "check"
    /\ cached' = exists(ffmpeg_exe_of(system))
    /\ IF exists(ffmpeg_exe_of(system))
       THEN /\ envPATH' = PrependPath(ffmpeg_dir_of(system), envPATH)
            /\ Return(PathResult(ffmpeg_exe_of(system)), log)
       ELSE /\ pc' = "probe"
            /\ UNCHANGED <<envPATH, ret, log, calls>>
    /\ UNCHANGED <<system, onPath, files, dirs, zipContent, run,
                   probeOutcome, files0, dirs0, path0, ydl, out>>

\* What subprocess.run(["ffmpeg", "-version"], timeout=5) can do: exit with
\* status zero or not, time out, fail with FileNotFoundError, or fail with
\* another OSError (PermissionError for a file on PATH that may not be
\* executed).
ProbeOutcomes ==
    IF onPath
    THEN {"zero", "nonzero", "timeout", "oserror"}
    ELSE {"notfound", "oserror"}

Probe_ZeroFallsThrough ==
    /\ pc = "probe"
    /\ \E o \in ProbeOutcomes :
          /\ probeOutcome' = o
          /\ IF o = "oserror"
             THEN Raise(Append(log, "probe"))
             ELSE /\ pc' = "install"
                  /\ log' = Append(log, "probe")
                  /\ UNCHANGED <<ret, calls>>
    /\ UNCHANGED <<system, onPath, files, dirs, zipContent, envPATH, run,
                   cached, files0, dirs0, path0, ydl, out>>

\* check_ffmpeg, lines 47-58: the system-path probe.
Probe ==
    /\ pc = "probe"
    /\ \E o \in ProbeOutcomes :
          /\ probeOutcome' = o
          /\ CASE o = "zero" -> Return(Sentinel, Append(log, "probe"))
               [] o = "oserror" -> Raise(Append(log, "probe"))
               [] OTHER -> /\ pc' = "install"
                           /\ log' = Append(log, "probe")
                           /\ UNCHANGED <<ret, calls>>
    /\ UNCHANGED <<system, onPath, files, dirs, zipContent, envPATH, run,
                   cached, files0, dirs0, path0, ydl, out>>

\* check_ffmpeg line 59 and install_ffmpeg, lines 69-87: the platform switch.
InstallFfmpeg ==
    /\ pc = "install"
    /\ log' = Append(log, "install_ffmpeg")
    /\ pc' = IF exists(ffmpeg_exe_of(system)) THEN "recheck"
             ELSE IF system = "Windows" THEN "win_download"
             ELSE IF system = "Darwin" THEN "mac_brew"
             ELSE "linux_apt"
    /\ UNCHANGED <<system, onPath, files, dirs, zipContent, envPATH, run,
                   cached, probeOutcome, ret, files0, dirs0, path0, ydl, out,
                   calls>>

\* ---------------------------------------------------------------- Linux

\* install_ffmpeg_linux, lines 167-174: sudo apt install -y ffmpeg.
LinuxApt ==
    /\ pc = "linux_apt"
    /\ \E ok \in BOOLEAN :
          IF ok
          THEN /\ onPath' = TRUE
               /\ InstallReturned(Append(log, "apt_ok"))
          ELSE /\ onPath' = onPath
               /\ pc' = "linux_yum"
               /\ log' = Append(log, "apt_fail")
               /\ UNCHANGED <<ret, calls>>
    /\ UNCHANGED <<system, files, dirs, zipContent, envPATH, run, cached,
                   probeOutcome, files0, dirs0, path0, ydl, out>>

\* install_ffmpeg_linux, lines 176-185: sudo yum install -y ffmpeg, and the
\* exception raised when it fails too.
LinuxYum ==
    /\ pc = "linux_yum"
    /\ \E ok \in BOOLEAN :
          IF ok
          THEN /\ onPath' = TRUE
               /\ InstallReturned(Append(log, "yum_ok"))
          ELSE /\ onPath' = onPath
               /\ InstallFailed(Append(log, "yum_fail"))
    /\ UNCHANGED <<system, files, dirs, zipContent, envPATH, run, cached,
                   probeOutcome, files0, dirs0, path0, ydl, out>>

\* ---------------------------------------------------------------- macOS

\* install_ffmpeg_mac, lines 122-132: brew --version, then brew install
\* ffmpeg; every failure of either is caught and falls back to the download.
MacBrew ==
    /\ pc = "mac_brew"
    /\ \E o \in {"nobrew", "fail", "ok"} :
          CASE o = "ok" -> /\ onPath' = TRUE
                           /\ InstallReturned(Append(log, "brew_ok"))
            [] o = "fail" -> /\ onPath' = onPath
                             /\ pc' = "mac_download"
                             /\ log' = Append(log, "brew_fail")
                             /\ UNCHANGED <<ret, calls>>
            [] OTHER -> /\ onPath' = onPath
                        /\ pc' = "mac_download"
                        /\ log' = log
                        /\ UNCHANGED <<ret, calls>>
    /\ UNCHANGED <<system, files, dirs, zipContent, envPATH, run, cached,
                   probeOutcome, files0, dirs0, path0, ydl, out>>

\* install_ffmpeg_mac, lines 134-149: create <base>/ffmpeg/bin, then fetch
\* the archive. urlretrieve fails before it writes anything (URLError), or
\* after it wrote a truncated file (ContentTooShortError), or delivers a file.
MacDownload ==
    /\ pc = "mac_download"
    /\ dirs' = makedirs(<<"ffmpeg", "bin">>)
    /\ \E o \in {"fail", "partial", "ok"} :
          CASE o = "fail" ->
                  /\ UNCHANGED <<files, zipContent>>
                  /\ InstallFailed(Append(log, "urlretrieve_fail"))
            [] o = "partial" ->
                  /\ files' = files \cup {ZipPath}
                  /\ zipContent' = Corrupt
                  /\ InstallFailed(Append(log, "urlretrieve_fail"))
            [] OTHER ->
                  \E a \in Archives :
                     /\ files' = files \cup {ZipPath}
                     /\ zipContent' = a
                     /\ pc' = "mac_extract"
                     /\ log' = Append(log, "urlretrieve_ok")
                     /\ UNCHANGED <<ret, calls>>
    /\ UNCHANGED <<system, onPath, envPATH, run, cached, probeOutcome,
                   files0, dirs0, path0, ydl, out>>

\* install_ffmpeg_mac, lines 151-161: open the archive (BadZipFile leaves
\* the function at once), extract all of it into <base>/ffmpeg/bin, chmod
\* the binary if it is there, remove the archive.
MacExtract ==
    /\ pc = "mac_extract"
    /\ IF zipContent.valid
       THEN /\ files' = extractall_files(zipContent, <<"ffmpeg", "bin">>)
                           \ {ZipPath}
            /\ dirs' = extractall_dirs(zipContent, <<"ffmpeg", "bin">>)
            /\ InstallReturned(Append(log, "extract_ok"))
       ELSE /\ UNCHANGED <<files, dirs>>
            /\ InstallFailed(Append(log, "extract_fail"))
    /\ UNCHANGED <<system, onPath, zipContent, envPATH, run, cached,
                   probeOutcome, files0, dirs0, path0, ydl, out>>

\* ---------------------------------------------------------------- Windows

\* install_ffmpeg_windows, lines 104-111: powershell Invoke-WebRequest with
\* check=True.
WinDownload ==
    /\ pc = "win_download"
    /\ \E ok \in BOOLEAN :
          IF ok
          THEN \E a \in Archives :
                  /\ files' = files \cup {ZipPath}
                  /\ zipContent' = a
                  /\ pc' = "win_extract"
                  /\ log' = Append(log, "powershell_ok")
                  /\ UNCHANGED <<ret, calls>>
          ELSE /\ UNCHANGED <<files, zipContent>>
               /\ InstallFailed(Append(log, "powershell_fail"))
    /\ UNCHANGED <<system, onPath, dirs, envPATH, run, cached, probeOutcome,
                   files0, dirs0, path0, ydl, out>>

\* install_ffmpeg_windows, lines 113-118: open the archive, extract all of
\* it into <base>/ffmpeg, remove the archive.
WinExtract ==
    /\ pc = "win_extract"
    /\ IF zipContent.valid
       THEN /\ files' = extractall_files(zipContent, <<"ffmpeg">>) \ {ZipPath}
            /\ dirs' = extractall_dirs(zipContent, <<"ffmpeg">>)
            /\ InstallReturned(Append(log, "extract_ok"))
       ELSE /\ UNCHANGED <<files, dirs>>
            /\ InstallFailed(Append(log, "extract_fail"))
    /\ UNCHANGED <<system, onPath, zipContent, envPATH, run, cached,
                   probeOutcome, files0, dirs0, path0, ydl, out>>

\* ---------------------------------------------------------------- the rest

Recheck_NoExistenceCheck ==
    /\ pc = "recheck"
    /\ envPATH' = PrependPath(ffmpeg_dir_of(system), envPATH)
    /\ Return(PathResult(ffmpeg_exe_of(system)), log)
    /\ UNCHANGED <<system, onPath, files, dirs, zipContent, run, cached,
                   probeOutcome, files0, dirs0, path0, ydl, out>>

\* check_ffmpeg, lines 61-67: the check after install_ffmpeg returned.
Recheck ==
    /\ pc = "recheck"
    /\ IF exists(ffmpeg_exe_of(system))
       THEN /\ envPATH' = PrependPath(ffmpeg_dir_of(system), envPATH)
            /\ Return(PathResult(ffmpeg_exe_of(system)), log)
       ELSE /\ envPATH' = envPATH
            /\ Raise(log)
    /\ UNCHANGED <<system, onPath, files, dirs, zipContent, run, cached,
                   probeOutcome, files0, dirs0, path0, ydl, out>>

\* download_video, lines 191-215, once check_ffmpeg has returned: set up the
\* options and run YoutubeDL.download, which completes or raises; the
\* handler at line 212 prints the error and download_video returns.
DownloadVideo ==
    /\ pc = "returned"
    /\ \E ok \in BOOLEAN :
          IF ok
          THEN /\ ydl' = "ok"
               /\ out' = out \cup {"Download complete!"}
          ELSE /\ ydl' = "raised"
               /\ out' = out \cup {"An error occurred"}
    /\ pc' = "main_print"
    /\ UNCHANGED <<system, onPath, files, dirs, zipContent, envPATH, run,
                   cached, probeOutcome, log, ret, files0, dirs0, path0,
                   calls>>

\* download_video, lines 212-215, when check_ffmpeg raised: print the error
\* and return normally.
DownloadVideoExcept ==
    /\ pc = "raised"
    /\ out' = out \cup {"An error occurred"}
    /\ pc' = "main_print"
    /\ UNCHANGED <<system, onPath, files, dirs, zipContent, envPATH, run,
                   cached, probeOutcome, log, ret, files0, dirs0, path0, ydl,
                   calls>>

\* __main__, line 231, after download_video returned.
MainPrint ==
    /\ pc = "main_print"
    /\ out' = out \cup {"Program completed successfully."}
    /\ pc' = "exit"
    /\ UNCHANGED <<system, onPath, files, dirs, zipContent, envPATH, run,
                   cached, probeOutcome, log, ret, files0, dirs0, path0, ydl,
                   calls>>

\* The program is started again: a new process on the same machine, with
\* the filesystem as the last run left it.
Restart ==
    /\ pc = "exit"
    /\ run < MaxRuns
    /\ run' = run + 1
    /\ pc' = "start"
    /\ envPATH' = InitialPATH
    /\ cached' = FALSE
    /\ probeOutcome' = "none"
    /\ log' = <<>>
    /\ ret' = NoResult
    /\ files0' = files
    /\ dirs0' = dirs
    /\ path0' = InitialPATH
    /\ ydl' = "none"
    /\ out' = {}
    /\ UNCHANGED <<system, onPath, files, dirs, zipContent, calls>>

Next ==
    \/ Main
    \/ CheckCached
    \/ Probe
    \/ InstallFfmpeg
    \/ LinuxApt
    \/ LinuxYum
    \/ MacBrew
    \/ MacDownload
    \/ MacExtract
    \/ WinDownload
    \/ WinExtract
    \/ Recheck
    \/ DownloadVideo
    \/ DownloadVideoExcept
    \/ MainPrint
    \/ Restart

Spec == Init /\ [][Next]_vars

\* ---------------------------------------------------------------- claims

\* The check_ffmpeg call of this run has ended and nothing ran after it.
CallEnded == pc \in {"returned", "raised"}

ProbeFailed == probeOutcome \in {"nonzero", "timeout", "notfound", "oserror"}

HasInstallWork(c) == Events(c.log) \cap InstallerEvents # {}

\* C1: check_ffmpeg raises only if the binary was absent, the probe failed
\* and no install step of the platform completed successfully; whenever an
\* install step completes successfully the call returns a result.
C1_RaisesOnlyWhenExhausted ==
    pc = "raised" =>
        /\ ~cached
        /\ ProbeFailed
        /\ Events(log) \cap InstallerSuccess = {}

\* C2: when the expected binary exists at the start of the call, the call
\* returns that path at once: no probe, no installer and no network access
\* happen on that call.
C2_CacheHitReturnsAtOnce ==
    cached =>
        /\ pc \in {"returned", "main_print", "exit"}
        /\ ret = PathResult(ffmpeg_exe_of(system))
        /\ probeOutcome = "none"
        /\ log = <<>>

C2_Witness ==
    /\ cached
    /\ pc = "returned"
    /\ log = <<>>

\* C3: when the binary is absent and the probe exits with status zero, the
\* call returns the literal name "ffmpeg" and attempts no install step.
C3_SystemProbeShortCircuit ==
    (~cached /\ probeOutcome = "zero") =>
        /\ pc \in {"returned", "main_print", "exit"}
        /\ ret = Sentinel
        /\ ret.path = <<"ffmpeg">>
        /\ log = <<"probe">>

C3_Witness ==
    /\ ~cached
    /\ probeOutcome = "zero"
    /\ pc = "returned"
    /\ ret = Sentinel

\* C4 as stated: of two consecutive calls at most one does install or
\* network work, and the second returns the cached path without any.
C4_Original ==
    \A i \in 1..(Len(calls) - 1) :
        /\ ~(HasInstallWork(calls[i]) /\ HasInstallWork(calls[i + 1]))
        /\ calls[i + 1].ret = PathResult(ffmpeg_exe_of(system))
        /\ ~HasInstallWork(calls[i + 1])

\* C4 as amended: of two consecutive calls of which the first returned the
\* expected binary path, at most one does install or network work, and the
\* second returns the cached path without a probe, an installer or any
\* network access.
C4_IdempotentAfterPathResult ==
    \A i \in 1..(Len(calls) - 1) :
        calls[i].ret.kind = "path" =>
            /\ ~(HasInstallWork(calls[i]) /\ HasInstallWork(calls[i + 1]))
            /\ calls[i + 1].ret = PathResult(ffmpeg_exe_of(system))
            /\ calls[i + 1].log = <<>>

C4_Witness ==
    \E i \in 1..(Len(calls) - 1) :
        /\ calls[i].ret.kind = "path"
        /\ HasInstallWork(calls[i])
        /\ calls[i + 1].ret = PathResult(ffmpeg_exe_of(system))
        /\ calls[i + 1].log = <<>>

\* C5: after a call has ended, returned or raised, no temporary archive
\* <base>/ffmpeg.zip remains on disk.
C5_NoArchiveLeftBehind ==
    CallEnded => ZipPath \notin files

FetchFailed == Events(log) \cap FetchFailures # {}

\* The install directory and everything below it, among the paths of S.
InInstallDir(S) == {p \in S : IsPrefix(ffmpeg_dir_of(system), p)}

\* The entries strictly below the install directory, among the paths of S.
BelowInstallDir(S) == InInstallDir(S) \ {ffmpeg_dir_of(system)}

\* C6 as stated: when the fetch fails the call raises and the install
\* directory is exactly as it was before the call.
C6_Original ==
    (CallEnded /\ FetchFailed) =>
        /\ pc = "raised"
        /\ InInstallDir(files) = InInstallDir(files0)
        /\ InInstallDir(dirs) = InInstallDir(dirs0)

\* C6 as amended: when the fetch fails the call raises, no file has been
\* added to or removed from the install directory and nothing new lies
\* below it; the only directories the call may have created are the install
\* directory itself and its parents.
C6_FetchFailureLeavesNoEntries ==
    (CallEnded /\ FetchFailed) =>
        /\ pc = "raised"
        /\ ret = Raised
        /\ InInstallDir(files) = InInstallDir(files0)
        /\ BelowInstallDir(dirs) = BelowInstallDir(dirs0)
        /\ dirs0 \subseteq dirs
        /\ dirs \ dirs0 \subseteq
               {ffmpeg_dir_of(system)} \cup Ancestors(ffmpeg_dir_of(system))

C6_Witness ==
    /\ pc = "raised"
    /\ FetchFailed
    /\ system = "Darwin"
    /\ ffmpeg_dir_of(system) \in dirs \ dirs0

\* C7: after a successful extraction of an archive that lists the binary's
\* name, at the root or below any directories, the binary is at the flat
\* expected path and the call returns it.
C7_BinaryInstalledAtExpectedPath ==
    (CallEnded /\ "extract_ok" \in Events(log)
               /\ ContainsBinary(zipContent, system)) =>
        /\ ffmpeg_exe_of(system) \in files
        /\ pc = "returned"

C9_FailedProbeFallsThrough ==
    (CallEnded /\ ~cached /\ ProbeFailed) =>
        /\ Count(log, "install_ffmpeg") = 1
        /\ Len(log) >= 2
        /\ log[2] = "install_ffmpeg"

\* C10: "Program completed successfully." is printed only on a run where
\* check_ffmpeg returned a path and the download returned without raising.
C10_SuccessMessageOnlyOnSuccess ==
    "Program completed successfully." \in out =>
        /\ ret.kind \in {"path", "name"}
        /\ ydl = "ok"

====
